---- MODULE Spec2Model ----
(***************************************************************************)
(* LearnHub: the goal / milestone roll-up (goals app) and the course       *)
(* progress reconciliation (resources app), as state machines over the     *)
(* stored rows.  Every action is one request handler or service call, run  *)
(* to completion, with the model methods and signal receivers it triggers. *)
(***************************************************************************)
EXTENDS Integers, Sequences, FiniteSets, TLC

\* ------------------------------------------------------------------ bounds
MaxGoals == 1
MaxMilestones == 2
MaxClock == 1
MaxProgress == 1
MaxModuleRows == 2
MaxTime == 2
MaxStreak == 2

\* ------------------------------------------------------------ value sets
Users == {"u1", "u2"}
Courses == {"c1", "c2"}
Categories == {"k1", "k2"}
\* module_id as posted; "" is a missing parameter.
ModuleIds == {"1", "2"}
Missing == ""
StepValues == {0, 1, 2}
Seconds == {-1, 0, 1}

\* LearningGoal.STATUS_CHOICES
STATUS_CHOICES == {"N", "I", "C", "A"}

\* A nullable DateTimeField: <<>> is NULL, <<t>> the time t.
Null == <<>>
At(t) == <<t>>

\* The title enroll_user_in_course gives the goal of a course.
LearningTitle(c) == <<"Learning", c>>
Titles == {<<"own">>} \cup {LearningTitle(c) : c \in Courses}

\* The status posted to goal_update_status: the four codes and a bad one.
PostedStatus == STATUS_CHOICES \cup {"X"}

VARIABLES
    goals,        \* LearningGoal table: sequence of rows, pk = index
    milestones,   \* GoalMilestone table: sequence of rows, pk = index
    courses,      \* Course table: course -> [category, total_steps]
    progress,     \* CourseProgress table: <<user, course>> -> row
    modules,      \* ModuleProgress table: <<user, course, module_id>> -> row
    inst,         \* the CourseProgress object a caller holds: <<>> or <<object>>
    resource_completed,  \* UserProfile.resource_completed per user
    stats,        \* UserLearningStats table: user -> row
    reported,     \* log: the <<user, course, module_id>> of every processed
                  \* progress report that carried completed=true
    pending,      \* toggle requests in flight: request -> what it wrote and read
    resources,    \* Course rows as resources: id -> roadmap and counter fields
    interactions, \* UserResourceInteraction table: <<user, id>> -> flags
    cooldown,     \* cache keys regenerate_cooldown_<course>_<user> that are set
    now,          \* the clock read by timezone.now()
    last          \* log: the last request and its response

vars == <<goals, milestones, courses, progress, modules, inst,
          resource_completed, stats, reported, pending, resources,
          interactions, cooldown, now, last>>

\* The tables of the goal and progress workflows, and those of the resource
\* pages and of the requests in flight.
goal_vars == <<goals, milestones, courses, progress, modules, inst,
               resource_completed, stats, reported>>
resource_vars == <<pending, resources, interactions, cooldown>>

GoalIds == DOMAIN goals
MilestoneIds == DOMAIN milestones

\* The request log entry: op, target (a pk or a key), response code, and
\* what the request found stored before it acted (<<>> when not kept).
Req(op, target, code, pre) ==
    [op |-> op, target |-> target, code |-> code, pre |-> pre]

\* ------------------------------------------------------- goals/models.py

\* django slugify of a title; base slug and numbered variants.
Slug(title, num) == <<title, num>>

\* LearningGoal.save, slug part: the first of base, base-1, base-2, ... that
\* no goal OF THE SAME USER carries.
RECURSIVE UniqueSlug(_, _, _, _)
UniqueSlug(gs, user, title, num) ==
    IF \E g \in DOMAIN gs : gs[g].user = user /\ gs[g].slug = Slug(title, num)
    THEN UniqueSlug(gs, user, title, num + 1)
    ELSE Slug(title, num)

\* The update_fields of the recompute's save.
CounterUpdateFieldsNoCount ==
    {"milestone_completed_count", "status", "completed_at"}
CounterUpdateFields ==
    {"milestone_count", "milestone_completed_count", "status", "completed_at"}

\* LearningGoal.save of an existing row (self.pk set) with update_fields:
\* stamps completed_at when the status is Completed and none is set, then
\* writes the named fields of the instance over the stored row.
GoalSaveRestamp(stored, self, update_fields, t) ==
    LET obj == IF self.status = "C"
               THEN [self EXCEPT !.completed_at = At(t)] ELSE self
    IN  [f \in DOMAIN stored |->
            IF f \in update_fields THEN obj[f] ELSE stored[f]]
GoalSaveAllFields(stored, self, update_fields, t) ==
    IF self.status = "C" /\ self.completed_at = Null
    THEN [self EXCEPT !.completed_at = At(t)] ELSE self
GoalSave(stored, self, update_fields, t) ==
    LET obj == IF self.status = "C" /\ self.completed_at = Null
               THEN [self EXCEPT !.completed_at = At(t)] ELSE self
    IN  [f \in DOMAIN stored |->
            IF f \in update_fields THEN obj[f] ELSE stored[f]]

\* self.milestones.aggregate(total=Count('id'), completed=Count(.. filter))
Total(ms, g) ==
    Cardinality({m \in DOMAIN ms : ms[m].goal = g})
Completed(ms, g) ==
    Cardinality({m \in DOMAIN ms : ms[m].goal = g /\ ms[m].is_completed})

\* LearningGoal.update_progress_counters on the instance self of goal g:
\* the stored row afterwards.  The promotion to InProgress and the save are
\* both nested in the all-completed branch.
UpdateProgressCountersSaveAlways(ms, g, stored, self, t) ==
    LET counted == [self EXCEPT !.milestone_count = Total(ms, g),
                                !.milestone_completed_count = Completed(ms, g)]
        obj == IF counted.milestone_count > 0
                  /\ counted.milestone_count = counted.milestone_completed_count
               THEN [counted EXCEPT !.status = "C"]
               ELSE counted
    IN  GoalSave(stored, obj, CounterUpdateFields, t)
UpdateProgressCountersDowngrade(ms, g, stored, self, t) ==
    LET counted == [self EXCEPT !.milestone_count = Total(ms, g),
                                !.milestone_completed_count = Completed(ms, g)]
        all == counted.milestone_count > 0
               /\ counted.milestone_count = counted.milestone_completed_count
        obj == IF all THEN [counted EXCEPT !.status = "C"]
               ELSE IF counted.status = "C"
                    THEN [counted EXCEPT !.status = "I", !.completed_at = Null]
                    ELSE counted
    IN  GoalSave(stored, obj, CounterUpdateFields, t)
UpdateProgressCounters(ms, g, stored, self, t) ==
    LET counted == [self EXCEPT !.milestone_count = Total(ms, g),
                                !.milestone_completed_count = Completed(ms, g)]
    IN  IF counted.milestone_count > 0
           /\ counted.milestone_count = counted.milestone_completed_count
        THEN LET obj ==
                   IF counted.status # "C"
                   THEN [counted EXCEPT !.status = "C"]
                   ELSE IF counted.milestone_completed_count > 0
                        THEN IF counted.status = "N"
                             THEN [counted EXCEPT !.status = "I"]
                             ELSE counted
                        ELSE counted
             IN  GoalSave(stored, obj, CounterUpdateFields, t)
        ELSE stored

\* GoalMilestone.save, the completed_at part, for an instance with the
\* given pk state (has_pk is FALSE on the first save of a new object).
MilestoneStamp(self, has_pk, t) ==
    IF has_pk /\ self.is_completed /\ self.completed_at = Null
    THEN [self EXCEPT !.completed_at = At(t)]
    ELSE IF has_pk /\ ~self.is_completed
         THEN [self EXCEPT !.completed_at = Null]
         ELSE self

\* The columns of a Course row that the resource pages read and write
\* (BaseResource and Course), as the model's defaults leave them.
ResourceRow(author, approved) ==
    [author |-> author, is_approved |-> approved, title |-> "t",
     upvote_count |-> 0, saved_count |-> 0, roadmap_json |-> Null,
     estimated_duration |-> Null, difficulty_progression |-> ""]

\* Every course written by u1 and approved; nothing in flight, no
\* interaction rows, no cooldown keys.
InitResources ==
    /\ pending = <<>>
    /\ resources = [c \in Courses |-> ResourceRow("u1", TRUE)]
    /\ interactions = <<>>
    /\ cooldown = {}

\* The tables after the migrations, with the Course rows given.
InitWith(course_table) ==
    /\ InitResources
    /\ goals = <<>>
    /\ milestones = <<>>
    /\ courses = course_table
    /\ progress = <<>>
    /\ modules = <<>>
    /\ inst = <<>>
    /\ resource_completed = [u \in Users |-> 0]
    /\ stats = <<>>
    /\ reported = {}
    /\ now = 0
    /\ last = Req("init", 0, 0, <<>>)

\* Courses of one category with total_steps at the field's default.
Init ==
    InitWith([c \in Courses |-> [category |-> "k1", total_steps |-> 0]])

\* Time passes between requests: timezone.now() reads this clock.
tick ==
    /\ now < MaxClock
    /\ now' = now + 1
    /\ UNCHANGED <<goals, milestones, courses, progress, modules, inst,
                   resource_completed, stats, reported, last, resource_vars>>

\* ------------------------------------------------------- goals/views.py

\* goal_create: a valid LearningGoalForm (title, status) saved for the user.
\* A new object has no pk, so save does not stamp completed_at; the slug is
\* unique per user while the column is unique over the table, and the insert
\* of a slug another user's goal carries fails (IntegrityError, a 500).
goal_create(user, title, status) ==
    /\ LET slug == UniqueSlug(goals, user, title, 0)
           row == [user |-> user, title |-> title, slug |-> slug,
                   status |-> status, completed_at |-> Null,
                   milestone_count |-> 0, milestone_completed_count |-> 0]
       IN  IF \E g \in GoalIds : goals[g].slug = slug
           THEN /\ UNCHANGED goals
                /\ last' = Req("goal_create", 0, 500, <<>>)
           ELSE /\ Len(goals) < MaxGoals
                /\ goals' = Append(goals, row)
                /\ last' = Req("goal_create", Len(goals) + 1, 302, <<>>)
    /\ UNCHANGED <<milestones, courses, progress, modules, inst,
                   resource_completed, stats, reported, now, resource_vars>>

\* A milestone added through the admin (GoalMilestoneAdmin / the inline):
\* GoalMilestone(goal, is_completed).save() on a new object, then the
\* recompute on the goal instance the form loaded.
milestone_create(g, is_completed) ==
    /\ Len(milestones) < MaxMilestones
    /\ g \in GoalIds
    /\ LET t == now
           new == [goal |-> g, is_completed |-> is_completed,
                   completed_at |-> Null]
           ms == Append(milestones, MilestoneStamp(new, FALSE, t))
           gs == [goals EXCEPT
                    ![g] = UpdateProgressCounters(ms, g, goals[g], goals[g], t)]
       IN  /\ milestones' = ms
           /\ goals' = gs
           /\ last' = Req("milestone_create", Len(ms), 200,
                          <<goals[g]>>)
    /\ UNCHANGED <<courses, progress, modules, inst, resource_completed,
                   stats, reported, now, resource_vars>>

\* milestone_toggle: the lookup (pk and goal__user) raises Http404 inside the
\* try, which only "except Exception" catches (a 500 response); otherwise the
\* flag is flipped, the milestone saved, the goal recomputed from a fresh
\* instance and re-read for the response.
MilestoneToggleAnyUser(user, pk) ==
    IF pk \in MilestoneIds
    THEN LET t == now
             g == milestones[pk].goal
             flipped == [milestones[pk] EXCEPT
                            !.is_completed = ~milestones[pk].is_completed]
             ms == [milestones EXCEPT ![pk] = MilestoneStamp(flipped, TRUE, t)]
             gs == [goals EXCEPT
                      ![g] = UpdateProgressCounters(ms, g, goals[g], goals[g], t)]
         IN  /\ milestones' = ms
             /\ goals' = gs
             /\ last' = Req("milestone_toggle", pk, 200, <<goals[g]>>)
             /\ UNCHANGED <<courses, progress, modules, inst,
                            resource_completed, stats, reported, now, resource_vars>>
    ELSE /\ last' = Req("milestone_toggle", pk, 500, <<>>)
         /\ UNCHANGED <<goals, milestones, courses, progress, modules, inst,
                        resource_completed, stats, reported, now, resource_vars>>
milestone_toggle(user, pk) ==
    IF pk \in MilestoneIds /\ goals[milestones[pk].goal].user = user
    THEN LET t == now
             g == milestones[pk].goal
             flipped == [milestones[pk] EXCEPT
                            !.is_completed = ~milestones[pk].is_completed]
             ms == [milestones EXCEPT ![pk] = MilestoneStamp(flipped, TRUE, t)]
             gs == [goals EXCEPT
                      ![g] = UpdateProgressCounters(ms, g, goals[g], goals[g], t)]
         IN  /\ milestones' = ms
             /\ goals' = gs
             /\ last' = Req("milestone_toggle", pk, 200, <<goals[g]>>)
             /\ UNCHANGED <<courses, progress, modules, inst, resource_completed,
                   stats, reported, now, resource_vars>>
    ELSE /\ last' = Req("milestone_toggle", pk, 500, <<>>)
         /\ UNCHANGED <<goals, milestones, courses, progress, modules, inst,
                        resource_completed, stats, reported, now, resource_vars>>

\* The steps of a toggle request after the milestone row is written: the
\* recompute's aggregate query, the recompute's save of the goal, and the
\* view's refresh of the goal.
FaultPoints == {"aggregate", "save", "refresh"}

\* milestone_toggle when the step at point raises after milestone.save wrote
\* the row.  The view's "except Exception" turns it into a 500 response
\* inside the function transaction.atomic decorates, so the block ends
\* normally and commits what was written.  Only an error raised in
\* Model.save marks the transaction for rollback (rolled_back is then TRUE);
\* for the others the backend decides whether the transaction can still be
\* committed.
milestone_toggle_failing(user, pk, point, rolled_back) ==
    /\ pk \in MilestoneIds
    /\ goals[milestones[pk].goal].user = user
    /\ LET t == now
           g == milestones[pk].goal
           flipped == [milestones[pk] EXCEPT
                          !.is_completed = ~milestones[pk].is_completed]
           ms == [milestones EXCEPT ![pk] = MilestoneStamp(flipped, TRUE, t)]
           gs == [goals EXCEPT
                    ![g] = UpdateProgressCounters(ms, g, goals[g], goals[g], t)]
       IN  /\ point = "save" => (rolled_back /\ gs # goals)
           /\ IF rolled_back
              THEN UNCHANGED <<milestones, goals>>
              ELSE /\ milestones' = ms
                   /\ goals' = IF point = "refresh" THEN gs ELSE goals
    /\ last' = Req("milestone_toggle", pk, 500, <<>>)
    /\ UNCHANGED <<courses, progress, modules, inst, resource_completed,
                   stats, reported, now, resource_vars>>

\* goal_update_status: a code outside STATUS_CHOICES is a 400 before any
\* lookup; a missing or foreign goal raises Http404 inside the try (a 500);
\* an unchanged status returns nothing; a move to Completed reads
\* timezone.now(), a name goals/views.py never imports (NameError, a 500,
\* nothing saved); any other move clears completed_at and saves.
GoalUpdateStatusUnchecked(user, pk, new_status) ==
    /\ IF ~(pk \in GoalIds /\ goals[pk].user = user)
       THEN /\ last' = Req("goal_update_status", pk, 500, <<>>)
            /\ UNCHANGED goals
       ELSE IF goals[pk].status = new_status
       THEN /\ last' = Req("goal_update_status", pk, 500, <<>>)
            /\ UNCHANGED goals
       ELSE IF new_status = "C"
       THEN /\ last' = Req("goal_update_status", pk, 500, <<>>)
            /\ UNCHANGED goals
       ELSE /\ goals' = [goals EXCEPT ![pk].status = new_status,
                                       ![pk].completed_at = Null]
            /\ last' = Req("goal_update_status", pk, 200, <<>>)
    /\ UNCHANGED <<milestones, courses, progress, modules, inst,
                   resource_completed, stats, reported, now, resource_vars>>
goal_update_status(user, pk, new_status) ==
    /\ IF new_status \notin STATUS_CHOICES
       THEN /\ last' = Req("goal_update_status", pk, 400, <<>>)
            /\ UNCHANGED goals
       ELSE IF ~(pk \in GoalIds /\ goals[pk].user = user)
       THEN /\ last' = Req("goal_update_status", pk, 500, <<>>)
            /\ UNCHANGED goals
       ELSE IF goals[pk].status = new_status
       THEN /\ last' = Req("goal_update_status", pk, 500, <<>>)
            /\ UNCHANGED goals
       ELSE IF new_status = "C"
       THEN /\ last' = Req("goal_update_status", pk, 500, <<>>)
            /\ UNCHANGED goals
       ELSE /\ goals' = [goals EXCEPT ![pk].status = new_status,
                                       ![pk].completed_at = Null]
            /\ last' = Req("goal_update_status", pk, 200, <<>>)
    /\ UNCHANGED <<milestones, courses, progress, modules, inst,
                   resource_completed, stats, reported, now, resource_vars>>

\* ---------------------------------------------------- resources/services.py

\* The names a LearningGoal query can resolve: the model's fields and the
\* reverse relations of GoalMilestone and GoalUpdate.
LearningGoalFields ==
    {"id", "user", "title", "slug", "description", "status", "created_at",
     "due_date", "completed_at", "milestone_count",
     "milestone_completed_count", "milestones", "updates"}

\* The attributes of UserProfile a hasattr check can find as a hook.
UserProfileMethods == {"__str__"}

\* A filter()/update() keyword that is no field raises FieldError.
QueryRaises(kwargs) ==
    \E f \in DOMAIN kwargs : f \notin LearningGoalFields

\* QuerySet.filter(**kwargs).update(**values): rows matching every keyword
\* take the values; Model.save is not called.
BulkUpdate(gs, kwargs, values) ==
    [g \in DOMAIN gs |->
        IF \A f \in DOMAIN kwargs : gs[g][f] = kwargs[f]
        THEN [f \in DOMAIN gs[g] |->
                 IF f \in DOMAIN values THEN values[f] ELSE gs[g][f]]
        ELSE gs[g]]

\* The outcome of a service call: whether it raised, the caller's object,
\* and the committed tables.
Outcome(raised, obj, pr, gs, rc) ==
    [raised |-> raised, obj |-> obj, progress |-> pr, goals |-> gs, rc |-> rc]

\* finalize_course_completion(user_progress) at time t, under
\* transaction.atomic: what it raises is rolled back in the tables, not in
\* the object.
FinalizeNoGuard(user_progress, pr, gs, rc, t) ==
    LET user == user_progress.key[1]
        course == user_progress.key[2]
        marked == [user_progress EXCEPT !.completed = TRUE,
                                        !.last_accessed = At(t)]
        saved == [pr EXCEPT ![user_progress.key] =
                     [completed |-> TRUE, last_accessed |-> At(t)]]
        kwargs == [user |-> user, category |-> courses[course].category,
                   completed |-> FALSE]
        values == [completed |-> TRUE, status |-> "C"]
    IN  IF QueryRaises(kwargs) \/ QueryRaises(values)
        THEN Outcome(TRUE, marked, pr, gs, rc)
        ELSE Outcome(FALSE, marked, saved, BulkUpdate(gs, kwargs, values),
                     IF "increment_completed_resources" \in UserProfileMethods
                     THEN [rc EXCEPT ![user] = @ + 1] ELSE rc)
finalize_course_completion(user_progress, pr, gs, rc, t) ==
    IF user_progress.completed
    THEN Outcome(FALSE, user_progress, pr, gs, rc)
    ELSE LET user == user_progress.key[1]
             course == user_progress.key[2]
             marked == [user_progress EXCEPT !.completed = TRUE,
                                             !.last_accessed = At(t)]
             saved == [pr EXCEPT ![user_progress.key] =
                          [completed |-> TRUE, last_accessed |-> At(t)]]
             kwargs == [user |-> user, category |-> courses[course].category,
                        completed |-> FALSE]
             values == [completed |-> TRUE, status |-> "C"]
         IN  IF QueryRaises(kwargs) \/ QueryRaises(values)
             THEN Outcome(TRUE, marked, pr, gs, rc)
             ELSE Outcome(FALSE, marked, saved, BulkUpdate(gs, kwargs, values),
                          IF "increment_completed_resources" \in UserProfileMethods
                          THEN [rc EXCEPT ![user] = @ + 1] ELSE rc)

\* The videos of a course's roadmap (Course.get_roadmap): one for c1, none
\* for a course without roadmap_json.
Videos(course) == IF course = "c1" THEN 1 ELSE 0

\* The keywords enroll_user_in_course passes to LearningGoal.objects.create.
EnrollKwargs == {"user", "title", "status", "content_type", "object_id"}

\* The outcome of enroll_user_in_course: whether it raised, and the tables.
Enrolled(raised, gs, ms) == [raised |-> raised, goals |-> gs, milestones |-> ms]

\* The milestone rows made for the n videos of a roadmap, for goal g.
RECURSIVE RoadmapMilestones(_, _, _)
RoadmapMilestones(ms, g, n) ==
    IF n = 0 THEN ms
    ELSE RoadmapMilestones(
             Append(ms, [goal |-> g, is_completed |-> FALSE,
                         completed_at |-> Null]), g, n - 1)

\* enroll_user_in_course(user, course): LearningGoal.objects.create with a
\* keyword that is no field of the model raises TypeError in the model's
\* constructor, before any row is written; otherwise the goal is inserted
\* with status I and one open milestone per roadmap video (no recompute
\* saves, as no milestone is completed).
enroll_user_in_course(user, course, gs, ms) ==
    IF \E k \in EnrollKwargs : k \notin LearningGoalFields
    THEN Enrolled(TRUE, gs, ms)
    ELSE LET title == LearningTitle(course)
             slug == UniqueSlug(gs, user, title, 0)
             row == [user |-> user, title |-> title, slug |-> slug,
                     status |-> "I", completed_at |-> Null,
                     milestone_count |-> 0, milestone_completed_count |-> 0]
         IN  IF \E g \in DOMAIN gs : gs[g].slug = slug
             THEN Enrolled(TRUE, gs, ms)
             ELSE Enrolled(FALSE, Append(gs, row),
                           RoadmapMilestones(ms, Len(gs) + 1, Videos(course)))

\* ----------------------------------------------------- resources/signals.py

\* The attributes hasattr finds on a Course instance: total_steps is a field
\* of the model (default 0), so every instance has it.
CourseFields == {"category", "total_steps", "roadmap_json",
                 "estimated_duration", "difficulty_progression"}

\* The receiver's count for a course without the attribute.
FallbackSteps == 10

\* handle_module_completion: post_save receiver of ModuleProgress, run after
\* the row mds[key] was written; user_progress is instance.course_progress.
handle_module_completion(key, mds, user_progress, pr, gs, rc, t) ==
    IF mds[key].is_completed
    THEN LET total_steps_required ==
                 IF "total_steps" \in CourseFields
                 THEN courses[key[2]].total_steps
                 ELSE FallbackSteps
             completed_count == Cardinality(
                 {k \in DOMAIN mds : k[1] = key[1] /\ k[2] = key[2]
                                     /\ mds[k].is_completed})
         IN  IF completed_count >= total_steps_required
                /\ ~user_progress.completed
             THEN finalize_course_completion(user_progress, pr, gs, rc, t)
             ELSE Outcome(FALSE, user_progress, pr, gs, rc)
    ELSE Outcome(FALSE, user_progress, pr, gs, rc)

\* ------------------------------------------------------- resources/admin.py

\* A CourseProgress added through CourseProgressAdmin; (user, course) is
\* unique, last_accessed is auto_now.
progress_add(user, course, completed) ==
    /\ <<user, course>> \notin DOMAIN progress
    /\ Cardinality(DOMAIN progress) < MaxProgress
    /\ progress' = progress @@ (<<user, course>> :>
                      [completed |-> completed, last_accessed |-> At(now)])
    /\ last' = Req("progress_add", <<user, course>>, 200, <<>>)
    /\ UNCHANGED <<goals, milestones, courses, modules, inst,
                   resource_completed, stats, reported, now, resource_vars>>

\* ------------------------------------------------------- resources/views.py

\* The object a caller gets for a CourseProgress row.
ProgressObject(key) ==
    [key |-> key, completed |-> progress[key].completed,
     last_accessed |-> progress[key].last_accessed]

\* course_enroll: an unknown course is a 404 before the try; inside it, under
\* transaction.atomic, the goal is made first and the CourseProgress fetched
\* or created after it; an exception rolls the block back and the view
\* redirects with an error message all the same.
course_enroll(user, course_id) ==
    IF course_id \notin DOMAIN courses
    THEN /\ last' = Req("course_enroll", <<user, course_id>>, 404, <<>>)
         /\ UNCHANGED <<goals, milestones, courses, progress, modules, inst,
                        resource_completed, stats, reported, now, resource_vars>>
    ELSE LET out == enroll_user_in_course(user, course_id, goals, milestones)
             cp == <<user, course_id>>
         IN  /\ Len(out.goals) <= MaxGoals
             /\ Len(out.milestones) <= MaxMilestones
             /\ IF out.raised
                THEN UNCHANGED <<goals, milestones, progress>>
                ELSE /\ goals' = out.goals
                     /\ milestones' = out.milestones
                     /\ progress' =
                            IF cp \in DOMAIN progress THEN progress
                            ELSE progress @@ (cp :>
                                    [completed |-> FALSE,
                                     last_accessed |-> At(now)])
             /\ last' = Req("course_enroll", cp, 302, <<>>)
             /\ UNCHANGED <<courses, modules, inst, resource_completed,
                            stats, reported, now, resource_vars>>

\* update_module_progress: the whole view is in a try whose "except
\* Exception" answers 500.  The view is not atomic: the row get_or_create
\* made stays.  timezone is datetime.timezone here (views.py line 10), so
\* timezone.now() on the completed branch raises AttributeError before the
\* stats update and the save.
update_module_progress(user, course, module_id, seconds, completed) ==
    LET cp == <<user, course>>
        key == <<user, course, module_id>>
    IN
    IF module_id = Missing
    THEN /\ last' = Req("update_module_progress", key, 400, <<>>)
         /\ UNCHANGED <<goals, milestones, courses, progress, modules, inst,
                        resource_completed, stats, reported, now, resource_vars>>
    ELSE IF cp \notin DOMAIN progress
    THEN /\ last' = Req("update_module_progress", key, 500, <<>>)
         /\ UNCHANGED <<goals, milestones, courses, progress, modules, inst,
                        resource_completed, stats, reported, now, resource_vars>>
    ELSE LET created == IF key \in DOMAIN modules THEN modules
                        ELSE modules @@ (key :> [is_completed |-> FALSE,
                                                 time_spent |-> 0,
                                                 completed_at |-> Null])
             mod_state == [created[key] EXCEPT !.time_spent = @ + seconds]
             t == now
         IN  /\ Cardinality(DOMAIN created) <= MaxModuleRows
             /\ mod_state.time_spent \in -MaxTime..MaxTime
             /\ IF completed
                THEN /\ modules' = created
                     /\ reported' = reported \cup {key}
                     /\ last' = Req("update_module_progress", key, 500,
                                    <<>>)
                     /\ UNCHANGED <<goals, progress, resource_completed>>
                ELSE LET mds == [created EXCEPT ![key] = mod_state]
                         out == handle_module_completion(
                                    key, mds, ProgressObject(cp), progress,
                                    goals, resource_completed, t)
                     IN  /\ modules' = mds
                         /\ progress' = out.progress
                         /\ goals' = out.goals
                         /\ resource_completed' = out.rc
                         /\ last' = Req("update_module_progress", key,
                                        IF out.raised THEN 500 ELSE 200, <<>>)
                         /\ UNCHANGED reported
             /\ UNCHANGED <<milestones, courses, inst, stats, now, resource_vars>>

\* ModuleProgress.save() by any caller (the view's mod_state.save(), the ORM):
\* the row is written, then post_save runs the receiver; what the receiver
\* raises reaches the caller after the row is stored.  The log keeps
\* whether the receiver invoked finalize_course_completion.
module_save(user, course, module_id, is_completed) ==
    LET cp == <<user, course>>
        key == <<user, course, module_id>>
        row == [is_completed |-> is_completed,
                time_spent |-> IF key \in DOMAIN modules
                               THEN modules[key].time_spent ELSE 0,
                completed_at |-> IF is_completed THEN At(now) ELSE Null]
        mds == IF key \in DOMAIN modules
               THEN [modules EXCEPT ![key] = row]
               ELSE modules @@ (key :> row)
    IN  /\ cp \in DOMAIN progress
        /\ Cardinality(DOMAIN mds) <= MaxModuleRows
        /\ LET out == handle_module_completion(
                          key, mds, ProgressObject(cp), progress, goals,
                          resource_completed, now)
           IN  /\ modules' = mds
               /\ progress' = out.progress
               /\ goals' = out.goals
               /\ resource_completed' = out.rc
               /\ last' = Req("module_save", key,
                              IF out.raised THEN 500 ELSE 200,
                              <<out.obj # ProgressObject(cp)>>)
        /\ UNCHANGED <<milestones, courses, inst, stats, reported, now, resource_vars>>

\* A caller takes the CourseProgress object of a row (the view's
\* get_object_or_404, the receiver's instance.course_progress).
get_progress(user, course) ==
    /\ <<user, course>> \in DOMAIN progress
    /\ inst' = <<ProgressObject(<<user, course>>)>>
    /\ last' = Req("get_progress", <<user, course>>, 200, <<>>)
    /\ UNCHANGED <<goals, milestones, courses, progress, modules,
                   resource_completed, stats, reported, now, resource_vars>>

\* A caller runs finalize_course_completion on the object it holds; the log
\* keeps the object and the goals as they were before the call.
finalize_call ==
    /\ inst # <<>>
    /\ LET t == now
           out == finalize_course_completion(inst[1], progress, goals,
                                             resource_completed, t)
       IN  /\ inst' = <<out.obj>>
           /\ progress' = out.progress
           /\ goals' = out.goals
           /\ resource_completed' = out.rc
           /\ last' = Req("finalize_course_completion", inst[1].key,
                          IF out.raised THEN 500 ELSE 200,
                          <<inst[1], goals>>)
    /\ UNCHANGED <<milestones, courses, modules, stats, reported, now, resource_vars>>

\* ------------------------------------------------------ resources/models.py

\* The attributes of the name "timezone" as resources/models.py and
\* resources/views.py bind it: the class datetime.timezone (line 6, line 10),
\* which has no "now".
TimezoneAttrs == {"utc", "min", "max", "utcoffset", "tzname", "dst", "fromutc"}

\* The outcome of a model method: whether it raised, and the stored row.
Result(raised, row) == [raised |-> raised, row |-> row]

\* UserLearningStats.update_streak on the row self, with the clock at day t:
\* today = timezone.now().date() is evaluated first; the comparison, the
\* assignment of last_learning_date and the save follow it.
update_streak(self, t) ==
    IF "now" \notin TimezoneAttrs
    THEN Result(TRUE, self)
    ELSE LET today == t
             streak ==
                 IF self.last_learning_date = At(today - 1)
                 THEN self.current_streak + 1
                 ELSE IF self.last_learning_date # At(today)
                      THEN 1
                      ELSE self.current_streak
         IN  Result(FALSE, [current_streak |-> streak,
                            last_learning_date |-> At(today)])

\* A caller runs stats.update_streak() on the user's row; the log keeps the
\* row and the day as they were at the call.
update_streak_call(user) ==
    /\ user \in DOMAIN stats
    /\ stats[user].current_streak <= MaxStreak
    /\ LET out == update_streak(stats[user], now)
       IN  /\ stats' = [stats EXCEPT ![user] = out.row]
           /\ last' = Req("update_streak", user,
                          IF out.raised THEN 500 ELSE 200,
                          <<stats[user], now>>)
    /\ UNCHANGED <<goals, milestones, courses, progress, modules, inst,
                   resource_completed, reported, now, resource_vars>>

\* ---------------------------------------------------- the goals workflow

NextGoals ==
    \/ \E s \in STATUS_CHOICES : goal_create("u1", <<"own">>, s)
    \/ \E g \in 1..MaxGoals, b \in BOOLEAN : milestone_create(g, b)
    \/ \E u \in Users, m \in 1..MaxMilestones : milestone_toggle(u, m)
    \/ \E u \in Users, g \in 1..MaxGoals, s \in PostedStatus :
           goal_update_status(u, g, s)
    \/ tick

SpecGoals == Init /\ [][NextGoals]_vars

\* The goals workflow with requests that fail after the milestone write.
NextToggleFaults ==
    \/ NextGoals
    \/ \E u \in Users, m \in 1..MaxMilestones, p \in FaultPoints,
          r \in BOOLEAN : milestone_toggle_failing(u, m, p, r)

SpecToggleFaults == Init /\ [][NextToggleFaults]_vars

\* Goal creation by every user with every title, and the board's moves.
NextSlug ==
    \/ \E u \in Users, title \in Titles, s \in STATUS_CHOICES :
           goal_create(u, title, s)
    \/ \E u \in Users, g \in 1..MaxGoals, s \in PostedStatus :
           goal_update_status(u, g, s)
    \/ tick

SpecSlug == Init /\ [][NextSlug]_vars

\* ---------------------------------------------------- every user's requests

\* The requests of both apps together, for both users, on course c1.
NextRequests ==
    \/ \E u \in Users, s \in {"N", "C"} :
           goal_create(u, LearningTitle("c1"), s)
    \/ \E g \in 1..MaxGoals, b \in BOOLEAN : milestone_create(g, b)
    \/ \E u \in Users, m \in 1..MaxMilestones : milestone_toggle(u, m)
    \/ \E u \in Users, g \in 1..MaxGoals, s \in {"I", "C", "X"} :
           goal_update_status(u, g, s)
    \/ \E u \in Users : course_enroll(u, "c1")
    \/ \E u \in Users, b \in BOOLEAN : progress_add(u, "c1", b)
    \/ \E u \in Users, b \in BOOLEAN :
           update_module_progress(u, "c1", "1", 1, b)
    \/ \E u \in Users : get_progress(u, "c1")
    \/ finalize_call

SpecRequests == Init /\ [][NextRequests]_vars

\* ------------------------------------------------ the finalization workflow

\* Course c2 in the category of c1 or in another one.
InitFinalize ==
    \E k \in Categories :
        InitWith([c \in Courses |->
                    [category |-> IF c = "c1" THEN "k1" ELSE k,
                     total_steps |-> 0]])

NextFinalize ==
    \/ \E u \in Users, c \in Courses, s \in {"N", "C"} :
           goal_create(u, LearningTitle(c), s)
    \/ \E u \in Users, c \in Courses, b \in BOOLEAN : progress_add(u, c, b)
    \/ \E u \in Users, c \in Courses : get_progress(u, c)
    \/ finalize_call
    \/ tick

SpecFinalize == InitFinalize /\ [][NextFinalize]_vars

\* ---------------------------------------------- the module-progress workflow

\* Course c1 with each total_steps value.
InitModules ==
    \E n \in StepValues :
        InitWith([c \in Courses |->
                    [category |-> "k1",
                     total_steps |-> IF c = "c1" THEN n ELSE 0]])

NextModules ==
    \/ \E u \in Users, c \in Courses, b \in BOOLEAN : progress_add(u, c, b)
    \/ \E u \in Users, c \in Courses, m \in ModuleIds \cup {Missing},
          s \in Seconds, b \in BOOLEAN : update_module_progress(u, c, m, s, b)
    \/ tick

SpecModules == InitModules /\ [][NextModules]_vars

\* ------------------------------------------------------ the receiver alone

\* ModuleProgress rows saved with either flag, for courses with total_steps
\* left at the default or set.
NextSignal ==
    \/ \E u \in Users, c \in Courses, b \in BOOLEAN : progress_add(u, c, b)
    \/ \E u \in Users, c \in Courses, m \in ModuleIds, b \in BOOLEAN :
           module_save(u, c, m, b)
    \/ tick

SpecSignal == InitModules /\ [][NextSignal]_vars

\* -------------------------------------------------- the enrollment workflow

\* The course_id of a request: a course of the table or one that is not.
CourseIds == Courses \cup {"c0"}

NextEnroll ==
    \/ \E u \in Users, c \in CourseIds : course_enroll(u, c)
    \/ \E u \in Users, c \in Courses : goal_create(u, LearningTitle(c), "I")
    \/ \E u \in Users, c \in Courses, b \in BOOLEAN : progress_add(u, c, b)
    \/ tick

SpecEnroll == Init /\ [][NextEnroll]_vars

\* ------------------------------------------------------ the streak workflow

\* The days a last_learning_date can hold, and the rows of the table.
Dates == -2..MaxClock
StatsRows ==
    [current_streak : 0..MaxStreak,
     last_learning_date : {Null} \cup {At(d) : d \in Dates}]

\* Every user has a UserLearningStats row; the clock counts days.
InitStreak ==
    /\ InitResources
    /\ goals = <<>>
    /\ milestones = <<>>
    /\ courses = [c \in Courses |-> [category |-> "k1", total_steps |-> 0]]
    /\ progress = <<>>
    /\ modules = <<>>
    /\ inst = <<>>
    /\ resource_completed = [u \in Users |-> 0]
    /\ stats \in [Users -> StatsRows]
    /\ reported = {}
    /\ now = 0
    /\ last = Req("init", 0, 0, <<>>)

NextStreak ==
    \/ \E u \in Users : update_streak_call(u)
    \/ tick

SpecStreak == InitStreak /\ [][NextStreak]_vars

\* ------------------------------------- goals/views.py, requests in flight

\* The requests that can be in flight at the same time.
Requests == {"r1", "r2"}

\* The milestone table a transaction reads after writing row at pk: the
\* committed rows and its own write (READ COMMITTED), never the
\* uncommitted write of another transaction.
VisibleDirty(ms, pend, pk, row) ==
    [m \in DOMAIN ms |->
        IF m = pk THEN row
        ELSE IF \E q \in DOMAIN pend : pend[q].pk = m
             THEN (CHOOSE p \in {pend[q] : q \in DOMAIN pend} : p.pk = m).row
             ELSE ms[m]]
Visible(ms, pend, pk, row) ==
    [ms EXCEPT ![pk] = row]

\* milestone_toggle up to the recompute's aggregate: the lookup, the flip,
\* the milestone's UPDATE (its row stays locked until the commit, so a
\* second toggle of the same milestone waits) and, in GoalMilestone.save,
\* the load of self.goal and the count of the milestones the transaction
\* sees.  Nothing is visible to other requests yet.
milestone_toggle_begin(r, user, pk) ==
    /\ r \notin DOMAIN pending
    /\ \A q \in DOMAIN pending : pending[q].pk # pk
    /\ IF pk \in MilestoneIds /\ goals[milestones[pk].goal].user = user
       THEN LET g == milestones[pk].goal
                flipped == [milestones[pk] EXCEPT
                               !.is_completed = ~milestones[pk].is_completed]
                row == MilestoneStamp(flipped, TRUE, now)
                txn == [pk |-> pk, g |-> g, row |-> row, t |-> now,
                        seen |-> Visible(milestones, pending, pk, row),
                        self |-> goals[g]]
            IN  /\ pending' = (r :> txn) @@ pending
                /\ last' = Req("milestone_toggle_begin", pk, 0, <<>>)
       ELSE /\ last' = Req("milestone_toggle", pk, 500, <<>>)
            /\ UNCHANGED pending
    /\ UNCHANGED <<goal_vars, resources, interactions, cooldown, now>>

\* The rest of milestone_toggle: the recompute's branch and save on the
\* goal instance loaded before, with the counts read before, and the
\* commit of the atomic block.  The UPDATE names the goal by pk only.  The
\* log keeps the instance, whether a row read has changed since, and
\* whether the recompute saved.
milestone_toggle_commit(r) ==
    /\ r \in DOMAIN pending
    /\ LET p == pending[r]
           g == p.g
           stale == \/ goals[g] # p.self
                    \/ \E m \in DOMAIN milestones \ {p.pk} :
                          m \notin DOMAIN p.seen \/ milestones[m] # p.seen[m]
           wrote == /\ Total(p.seen, g) > 0
                    /\ Total(p.seen, g) = Completed(p.seen, g)
       IN  /\ milestones' = [milestones EXCEPT ![p.pk] = p.row]
           /\ goals' = [goals EXCEPT
                          ![g] = UpdateProgressCounters(p.seen, g, goals[g],
                                                        p.self, p.t)]
           /\ pending' = [q \in DOMAIN pending \ {r} |-> pending[q]]
           /\ last' = Req("milestone_toggle", p.pk, 200,
                          <<p.self, stale, wrote>>)
    /\ UNCHANGED <<courses, progress, modules, inst, resource_completed,
                   stats, reported, resources, interactions, cooldown, now>>

\* A change of the goal's title through the admin (LearningGoalAdmin): the
\* object is loaded, given the title and saved with all its fields.
goal_edit(g, title) ==
    /\ g \in GoalIds
    /\ goals[g].title # title
    /\ goals' = [goals EXCEPT
                   ![g] = GoalSave(goals[g], [goals[g] EXCEPT !.title = title],
                                   DOMAIN goals[g], now)]
    /\ last' = Req("goal_edit", g, 200, <<goals[g]>>)
    /\ UNCHANGED <<milestones, courses, progress, modules, inst,
                   resource_completed, stats, reported, resource_vars, now>>

\* One user's goal, its milestones, and toggles of them in flight together.
NextRace ==
    \/ \E s \in STATUS_CHOICES : goal_create("u1", <<"own">>, s)
    \/ \E b \in BOOLEAN : milestone_create(1, b)
    \/ \E r \in Requests, u \in Users, pk \in 1..MaxMilestones :
          milestone_toggle_begin(r, u, pk)
    \/ \E r \in Requests : milestone_toggle_commit(r)
    \/ \E title \in Titles : goal_edit(1, title)
    \/ tick

SpecRace == Init /\ [][NextRace]_vars

\* ------------------------------------------- resources/views.py, pages

\* The resource_id and interaction_type a client can post: "" is a missing
\* parameter, "c0" no resource, "bogus" no interaction.
ResourceIds == {"c1", "c0", Missing}
InteractionTypes == {"upvote", "save", "complete", "bogus", Missing}

\* get_or_create's defaults for a new UserResourceInteraction.
InteractionDefaults ==
    [upvoted |-> FALSE, saved |-> FALSE, completed |-> FALSE]

\* The flag the interaction toggles and the counter that follows it
\* ("" when there is none).
FlagOf(interaction_type) ==
    CASE interaction_type = "upvote" -> "upvoted"
      [] interaction_type = "save" -> "saved"
      [] OTHER -> "completed"
CounterOf(interaction_type) ==
    CASE interaction_type = "upvote" -> "upvote_count"
      [] interaction_type = "save" -> "saved_count"
      [] OTHER -> ""

\* resource.<counter> += 1, or max(0, resource.<counter> - 1).
Adjust(count, new_state) ==
    IF new_state THEN count + 1
    ELSE IF count - 1 > 0 THEN count - 1 ELSE 0

\* POST resource_interaction.  The row is fetched or created before the
\* interaction type is looked at; the log keeps whether it existed.
resource_interaction(user, resource_id, interaction_type) ==
    LET key == <<user, resource_id>>
        existed == key \in DOMAIN interactions
        row == IF existed THEN interactions[key] ELSE InteractionDefaults
        flag == FlagOf(interaction_type)
        new_state == ~row[flag]
        counter == CounterOf(interaction_type)
    IN
    /\ IF resource_id = Missing \/ interaction_type = Missing
       THEN /\ UNCHANGED <<interactions, resources>>
            /\ last' = Req("resource_interaction", key, 400, <<existed>>)
       ELSE IF \/ resource_id \notin DOMAIN resources
               \/ ~resources[resource_id].is_approved
       THEN /\ UNCHANGED <<interactions, resources>>
            /\ last' = Req("resource_interaction", key, 404, <<existed>>)
       ELSE IF interaction_type \notin {"upvote", "save", "complete"}
       THEN /\ interactions' = (key :> row) @@ interactions
            /\ UNCHANGED resources
            /\ last' = Req("resource_interaction", key, 400, <<existed>>)
       ELSE /\ interactions' =
                  (key :> [row EXCEPT ![flag] = new_state]) @@ interactions
            /\ resources' =
                  IF counter = "" THEN resources
                  ELSE [resources EXCEPT ![resource_id][counter] =
                                             Adjust(@, new_state)]
            /\ last' = Req("resource_interaction", key, 200, <<existed>>)
    /\ UNCHANGED <<goal_vars, pending, cooldown, now>>

\* A staff member approves a resource or withdraws the approval (admin).
resource_set_approved(resource_id, approved) ==
    /\ resources[resource_id].is_approved # approved
    /\ resources' = [resources EXCEPT ![resource_id].is_approved = approved]
    /\ last' = Req("resource_set_approved", resource_id, 200, <<>>)
    /\ UNCHANGED <<goal_vars, pending, interactions, cooldown, now>>

NextInteraction ==
    \/ \E u \in Users, r \in ResourceIds, t \in InteractionTypes :
          resource_interaction(u, r, t)
    \/ \E r \in ResourceIds \cap Courses, b \in BOOLEAN :
          resource_set_approved(r, b)

SpecInteraction == Init /\ [][NextInteraction]_vars

\* ---------------------------------- resources/course_tools.py, roadmaps

\* What the two external services do during one generator run: both
\* answer well; the video search fails; the language model is over quota
\* (RateLimitError), answers with text that is no JSON, fails with another
\* OpenAIError, or answers with JSON whose module has no title.
GeneratorOutcomes ==
    {"ok", "video_error", "rate_limit", "bad_json", "api_error", "bad_module"}

\* The outcomes in which a service failed or answered malformed data.
GeneratorFailed(outcome) == outcome # "ok"

\* _call_deepseek_api: the parsed answer, the fallback dictionaries of the
\* two handled errors, or the OpenAIError raised again.  A module is the
\* sequence of its keys' values: <<title>>, or <<>> without a title.
call_deepseek_api(outcome) ==
    CASE outcome = "rate_limit" ->
            [raised |-> FALSE, improved_title |-> "AI Busy (Rate Limit Hit)",
             modules |-> <<>>]
      [] outcome = "bad_json" ->
            [raised |-> FALSE, improved_title |-> "Course Title",
             modules |-> <<>>]
      [] outcome = "api_error" ->
            [raised |-> TRUE, improved_title |-> "", modules |-> <<>>]
      [] outcome = "bad_module" ->
            [raised |-> FALSE, improved_title |-> "improved",
             modules |-> << <<>> >>]
      [] OTHER ->
            [raised |-> FALSE, improved_title |-> "improved",
             modules |-> << <<"m">> >>]

\* _fetch_youtube_content: the number of videos kept (each of one unit of
\* duration); any error of the search gives the empty list.
fetch_youtube_content(outcome) ==
    IF outcome = "video_error" THEN 0 ELSE 1

RECURSIVE TotalSeconds(_)
TotalSeconds(structured) ==
    IF structured = <<>> THEN 0
    ELSE Head(structured).duration_seconds + TotalSeconds(Tail(structured))

\* generate_course_roadmap(course): module_data['title'] of a module
\* without title raises KeyError; otherwise the course takes the title,
\* duration and roadmap and is saved.  Gives what was raised, the course as
\* saved (the argument when nothing was saved) and the modules returned.
generate_course_roadmap(course, outcome) ==
    LET ai == call_deepseek_api(outcome)
        structured ==
            [i \in DOMAIN ai.modules |->
                [title |-> ai.modules[i][1],
                 video_count |-> fetch_youtube_content(outcome),
                 duration_seconds |-> fetch_youtube_content(outcome)]]
    IN  IF ai.raised \/ \E i \in DOMAIN ai.modules : ai.modules[i] = <<>>
        THEN [raised |-> TRUE, course |-> course, modules |-> <<>>]
        ELSE [raised |-> FALSE,
              course |-> [course EXCEPT
                             !.title = ai.improved_title,
                             !.estimated_duration =
                                 At(TotalSeconds(structured)),
                             !.roadmap_json = At(structured)],
              modules |-> structured]

\* Course.get_roadmap: the stored JSON parsed, [] when there is none.
get_roadmap(self) ==
    IF self.roadmap_json = Null THEN <<>> ELSE self.roadmap_json[1]

\* generate_difficulty_progression(course.difficulty)
generate_difficulty_progression == "progression"

\* A visitor who is not logged in; no user of the model is staff.
Anonymous == "anon"
Staff == {}

\* The number of courses generate_course_ajax can add, and their ids.
MaxGenerated == 1
GeneratedIds == {"g" \o ToString(i) : i \in 1..MaxGenerated}

\* The log entry of a request that can run the generator: what the user
\* is told (message level, "" for none), the module list in the response,
\* whether the generator ran and with which outcome ("" when it did not
\* run), and the row before.
RoadmapResp(op, target, code, message, shown, invoked, outcome, pre) ==
    [op |-> op, target |-> target, code |-> code, message |-> message,
     shown |-> shown, invoked |-> invoked, outcome |-> outcome, pre |-> pre]

\* GET resource_detail of a course.  The generator runs when the course has
\* no module stored; the goal lookup that follows filters LearningGoal on
\* content_type for a logged-in user.
resource_detail(user, course_id, outcome) ==
    IF course_id \notin DOMAIN resources \/ ~resources[course_id].is_approved
    THEN /\ last' = RoadmapResp("resource_detail", course_id, 302, "error",
                                <<>>, FALSE, "", <<>>)
         /\ UNCHANGED <<goal_vars, resource_vars, now>>
    ELSE
    LET resource == resources[course_id]
        stored == get_roadmap(resource)
        invoked == stored = <<>>
        gen == generate_course_roadmap(resource, outcome)
        course_roadmap == IF ~invoked THEN stored
                          ELSE IF gen.raised THEN <<>> ELSE gen.modules
        message == IF ~invoked THEN ""
                   ELSE IF gen.raised THEN "warning" ELSE "info"
        ran == IF invoked THEN outcome ELSE ""
    IN  /\ resources' = IF invoked
                        THEN [resources EXCEPT ![course_id] = gen.course]
                        ELSE resources
        /\ IF user # Anonymous /\ QueryRaises([user |-> user,
                                               content_type |-> "course",
                                               object_id |-> course_id])
           THEN last' = RoadmapResp("resource_detail", course_id, 302,
                                    "error", <<>>, invoked, ran,
                                    <<resource>>)
           ELSE last' = RoadmapResp("resource_detail", course_id, 200,
                                    message, course_roadmap, invoked,
                                    ran, <<resource>>)
        /\ UNCHANGED <<goal_vars, pending, interactions, cooldown, now>>

\* generate_course_ajax: the generator runs on a Course object built from
\* the posted title and description, and saves it.
generate_course_ajax(user, method, posted, outcome) ==
    LET temp_course == ResourceRow(user, TRUE)
        gen == generate_course_roadmap(temp_course, outcome)
        free == GeneratedIds \ DOMAIN resources
        id == CHOOSE i \in free : TRUE
    IN
    /\ IF method # "POST"
       THEN /\ last' = RoadmapResp("generate_course_ajax", "", 405, "", <<>>,
                                   FALSE, "", <<>>)
            /\ UNCHANGED resources
       ELSE IF ~posted
       THEN /\ last' = RoadmapResp("generate_course_ajax", "", 400, "", <<>>,
                                   FALSE, "", <<>>)
            /\ UNCHANGED resources
       ELSE IF gen.raised
       THEN /\ last' = RoadmapResp("generate_course_ajax", "", 500, "", <<>>,
                                   TRUE, outcome, <<>>)
            /\ UNCHANGED resources
       ELSE /\ free # {}
            /\ resources' = (id :> gen.course) @@ resources
            /\ last' = RoadmapResp("generate_course_ajax", id, 200, "",
                                   gen.modules, TRUE, outcome, <<>>)
    /\ UNCHANGED <<goal_vars, pending, interactions, cooldown, now>>

\* POST regenerate_course_roadmap.  The three fields are set to None and
\* the course saved inside the atomic block: difficulty_progression is a
\* column without null=True, so whether that save is accepted depends on
\* the database (null_accepted).  The generator's exception is caught
\* inside the block, which then commits.
regenerate_course_roadmap(user, course_id, outcome, null_accepted) ==
    LET key == <<course_id, user>>
        op == "regenerate_course_roadmap"
    IN
    IF course_id \notin DOMAIN resources
    THEN /\ last' = RoadmapResp(op, course_id, 302, "error", <<>>, FALSE,
                                "", <<>>)
         /\ UNCHANGED <<goal_vars, resource_vars, now>>
    ELSE
    LET course == resources[course_id]
        cleared == [course EXCEPT !.roadmap_json = Null,
                                  !.estimated_duration = Null,
                                  !.difficulty_progression = Null]
        gen == generate_course_roadmap(cleared, outcome)
        refreshed ==
            IF gen.course.difficulty_progression \in {Null, ""}
            THEN [gen.course EXCEPT !.difficulty_progression =
                                        generate_difficulty_progression]
            ELSE gen.course
    IN
    /\ IF ~(user = course.author \/ user \in Staff)
       THEN /\ last' = RoadmapResp(op, course_id, 302, "error", <<>>, FALSE,
                                   "", <<course>>)
            /\ UNCHANGED <<resources, cooldown>>
       ELSE IF key \in cooldown
       THEN /\ last' = RoadmapResp(op, course_id, 302, "warning", <<>>,
                                   FALSE, "", <<course>>)
            /\ UNCHANGED <<resources, cooldown>>
       ELSE /\ cooldown' = cooldown \cup {key}
            /\ IF ~null_accepted
               THEN /\ last' = RoadmapResp(op, course_id, 302, "error", <<>>,
                                           FALSE, "", <<course>>)
                    /\ UNCHANGED resources
               ELSE IF gen.raised
               THEN /\ last' = RoadmapResp(op, course_id, 302, "error", <<>>,
                                           TRUE, outcome, <<course>>)
                    /\ resources' = [resources EXCEPT ![course_id] = cleared]
               ELSE /\ last' = RoadmapResp(op, course_id, 302, "success",
                                           gen.modules, TRUE, outcome,
                                           <<course>>)
                    /\ resources' =
                           [resources EXCEPT ![course_id] = refreshed]
    /\ UNCHANGED <<goal_vars, pending, interactions, now>>

\* The cache drops a cooldown key 300 seconds after it was set.
cooldown_expire(key) ==
    /\ key \in cooldown
    /\ cooldown' = cooldown \ {key}
    /\ last' = Req("cooldown_expire", key, 0, <<>>)
    /\ UNCHANGED <<goal_vars, pending, resources, interactions, now>>

\* The course pages are requested for c1 and for an id no course has.
NextRoadmap ==
    \/ \E u \in Users \cup {Anonymous}, c \in {"c1", "c0"},
          o \in GeneratorOutcomes : resource_detail(u, c, o)
    \/ \E u \in Users, m \in {"POST", "GET"}, p \in BOOLEAN,
          o \in GeneratorOutcomes : generate_course_ajax(u, m, p, o)
    \/ \E u \in Users, c \in {"c1", "c0"}, o \in GeneratorOutcomes,
          b \in BOOLEAN : regenerate_course_roadmap(u, c, o, b)
    \/ \E u \in Users : cooldown_expire(<<"c1", u>>)

SpecRoadmap == Init /\ [][NextRoadmap]_vars

\* ------------------------------------------------------------ properties

\* The goal a milestone request of the log was about.
LastGoal == milestones[last.target].goal

ToggleDone == last.op = "milestone_toggle" /\ last.code = 200

RecomputeDone ==
    last.op \in {"milestone_toggle", "milestone_create"} /\ last.code = 200

\* The course a goal was made for, by the title enrollment gives it, and
\* that course's category.
GoalCategory(row) ==
    IF \E c \in Courses : row.title = LearningTitle(c)
    THEN courses[CHOOSE c \in Courses : row.title = LearningTitle(c)].category
    ELSE "none"

\* C1: when milestone_toggle returns, the goal's stored milestone_count is
\* the number of its milestones and its stored milestone_completed_count the
\* number of its completed milestones, also when only some are completed.
C1_CountersCorrectAfterToggle ==
    ToggleDone =>
        /\ goals[LastGoal].milestone_count = Total(milestones, LastGoal)
        /\ goals[LastGoal].milestone_completed_count
               = Completed(milestones, LastGoal)

\* C2: toggling a milestone to completed and, as the very next request, back
\* restores the goal's stored counters to what they were before the first
\* toggle and leaves the milestone's completed_at null.
C2_ToggleTwiceRestores ==
    [][(/\ ToggleDone
        /\ milestones[last.target].is_completed
        /\ milestones' # milestones
        /\ last'.op = "milestone_toggle" /\ last'.code = 200
        /\ last'.target = last.target)
       => /\ goals'[LastGoal].milestone_count = last.pre[1].milestone_count
          /\ goals'[LastGoal].milestone_completed_count
                 = last.pre[1].milestone_completed_count
          /\ milestones'[last.target].completed_at = Null]_vars

\* C3: every goal's stored milestone_completed_count is at most its stored
\* milestone_count, in every reachable state.
C3_CompletedAtMostCount ==
    \A g \in GoalIds :
        goals[g].milestone_completed_count <= goals[g].milestone_count

\* A toggle whose recompute wrote the counters of a goal with two milestones.
C3_Witness ==
    /\ ToggleDone
    /\ goals[LastGoal].milestone_count = 2
    /\ last.pre[1].milestone_count < 2

\* C4: after a toggle on a NotStarted goal, some but not all milestones
\* completed means the status is InProgress, none completed means it is
\* still NotStarted.
C4_PromotedToInProgress ==
    (ToggleDone /\ last.pre[1].status = "N") =>
        /\ (/\ Completed(milestones, LastGoal) > 0
            /\ Completed(milestones, LastGoal) < Total(milestones, LastGoal))
           => goals[LastGoal].status = "I"
        /\ Completed(milestones, LastGoal) = 0 => goals[LastGoal].status = "N"

\* C5: after a recompute that found at least one milestone and all of them
\* completed, the goal is stored Completed with completed_at set, and a
\* completed_at that was set before is the same afterwards.
C5_AllDoneIsCompleted ==
    (/\ RecomputeDone
     /\ Total(milestones, LastGoal) > 0
     /\ Total(milestones, LastGoal) = Completed(milestones, LastGoal))
    => /\ goals[LastGoal].status = "C"
       /\ goals[LastGoal].completed_at # Null
       /\ last.pre[1].completed_at # Null
          => goals[LastGoal].completed_at = last.pre[1].completed_at

\* A toggle completed the last open milestone of a goal whose completed_at
\* was set at an earlier time.
C5_Witness ==
    /\ ToggleDone
    /\ Total(milestones, LastGoal) = Completed(milestones, LastGoal)
    /\ last.pre[1].completed_at # Null
    /\ milestones[last.target].completed_at = At(now)
    /\ goals[LastGoal].completed_at # At(now)

\* C6: a goal stored Completed is stored with another status after a step
\* only if that step is a successful goal_update_status on that goal; no
\* milestone creation, toggle or recompute takes it out of Completed.
C6_CompletedNeverDowngraded ==
    [][\A g \in GoalIds :
          (goals[g].status = "C" /\ goals'[g].status # "C")
          => (/\ last'.op = "goal_update_status"
              /\ last'.code = 200
              /\ last'.target = g)]_vars

\* A toggle reopened a milestone of a Completed goal, which is still
\* Completed.
C6_Witness ==
    /\ ToggleDone
    /\ last.pre[1].status = "C"
    /\ Completed(milestones, LastGoal) < Total(milestones, LastGoal)
    /\ goals[LastGoal].status = "C"

\* C7: for every milestone, completed_at is non-null iff is_completed.
C7_CompletedAtIffCompleted ==
    \A m \in MilestoneIds :
        (milestones[m].completed_at # Null) <=> milestones[m].is_completed

\* C8: a finalize_course_completion call that directly follows another one
\* on the same object changes no CourseProgress (row or object), no goal and
\* no profile counter.
C8_SecondFinalizeIsNoOp ==
    [][(/\ last.op = "finalize_course_completion"
        /\ last'.op = "finalize_course_completion")
       => UNCHANGED <<goals, milestones, progress, modules, inst,
                      resource_completed>>]_vars

\* The second of two finalize calls in a row returned: the object was marked
\* completed by the first call, whose transaction was rolled back.
C8_Witness ==
    /\ last.op = "finalize_course_completion"
    /\ last.code = 200
    /\ last.pre[1].completed
    /\ ~progress[last.target].completed

\* The modules of a CourseProgress stored completed, and those a processed
\* completed=true report named.
CompletedRows(mds, cp) ==
    {k \in DOMAIN mds : k[1] = cp[1] /\ k[2] = cp[2] /\ mds[k].is_completed}
ReportedDone(rep, cp) ==
    {k \in rep : k[1] = cp[1] /\ k[2] = cp[2]}

\* C9: for a course with total_steps = N > 0, an open CourseProgress is still
\* open after a request while fewer than N of its module rows are completed,
\* and is completed once completed reports for N modules have been processed.
C9_CompletedAtTotalSteps ==
    [][\A cp \in DOMAIN progress :
          (courses[cp[2]].total_steps > 0 /\ ~progress[cp].completed)
          => /\ Cardinality(CompletedRows(modules', cp))
                    < courses[cp[2]].total_steps
                => ~progress'[cp].completed
             /\ Cardinality(ReportedDone(reported', cp))
                    >= courses[cp[2]].total_steps
                => progress'[cp].completed]_vars

\* C10: after finalize_course_completion ran on a not yet completed
\* CourseProgress of user U for a course of category K, every goal of U that
\* was not Completed and is for a course of category K is Completed, and
\* every goal of U for another category has the status it had.
C10_CategoryGoalsCompleted ==
    (/\ last.op = "finalize_course_completion"
     /\ ~last.pre[1].completed)
    => \A g \in DOMAIN last.pre[2] :
          LET before == last.pre[2][g]
              K == courses[last.target[2]].category
          IN  before.user = last.target[1]
              => /\ (GoalCategory(before) = K /\ before.status # "C")
                    => goals[g].status = "C"
                 /\ GoalCategory(before) # K
                    => goals[g].status = before.status

\* The streak and date the reference rule gives a row on the day today.
ReferenceStreak(row, today) ==
    [current_streak |->
         IF row.last_learning_date = At(today - 1)
         THEN row.current_streak + 1
         ELSE IF row.last_learning_date # At(today)
              THEN 1
              ELSE row.current_streak,
     last_learning_date |-> At(today)]

\* C11: after update_streak ran on a row, the row is what the reference rule
\* gives for the row and the day of the call: streak + 1 when
\* last_learning_date was the day before, 1 when it was null or any other
\* day but today, unchanged when it was today; last_learning_date is today.
C11_StreakMatchesReference ==
    last.op = "update_streak"
    => stats[last.target] = ReferenceStreak(last.pre[1], last.pre[2])

\* C12: an update_streak call on a row whose last_learning_date is the day
\* before increments the streak by 1 and sets last_learning_date to today;
\* a call on a row whose last_learning_date is today already changes neither.
C12_StreakSameDayIdempotent ==
    [][\A u \in Users :
          update_streak_call(u)
          => /\ stats[u].last_learning_date = At(now - 1)
                => stats'[u] = [current_streak |-> stats[u].current_streak + 1,
                                last_learning_date |-> At(now)]
             /\ stats[u].last_learning_date = At(now)
                => stats'[u] = stats[u]]_vars

\* The stored time_spent of a module row before a report: the field's
\* default for a row the report is about to create.
TimeBefore(key) ==
    IF key \in DOMAIN modules THEN modules[key].time_spent ELSE 0

\* Whether a report is for a module row stored completed already.
AlreadyCompleted(key) ==
    key \in DOMAIN modules /\ modules[key].is_completed

\* C13: every progress report for an enrolled user's (course, module_id)
\* leaves exactly one row for the key, created by the first report and
\* reused afterwards, whose time_spent is the time_spent before the report
\* plus the report's seconds.
C13_TimeSpentAccumulates ==
    [][\A u \in Users, c \in Courses, m \in ModuleIds, s \in Seconds,
          b \in BOOLEAN :
          (/\ <<u, c>> \in DOMAIN progress
           /\ update_module_progress(u, c, m, s, b))
          => /\ DOMAIN modules' = DOMAIN modules \cup {<<u, c, m>>}
             /\ modules'[<<u, c, m>>].time_spent
                    = TimeBefore(<<u, c, m>>) + s]_vars

\* C14: no step lowers the stored time_spent of a module row, and a row is
\* never created below the field's default of zero.
C14_TimeSpentNeverDecreases ==
    [][\A key \in DOMAIN modules' :
          modules'[key].time_spent >= TimeBefore(key)]_vars

\* C15: a completed report for a module row not yet completed stores the row
\* completed with completed_at at the time of the report and gives the user
\* a learning stats row; a completed report for a row already completed
\* changes neither the row's completed_at nor the learning stats.
C15_CompletionEffectsOnce ==
    [][\A u \in Users, c \in Courses, m \in ModuleIds, s \in Seconds :
          (/\ <<u, c>> \in DOMAIN progress
           /\ update_module_progress(u, c, m, s, TRUE))
          => IF AlreadyCompleted(<<u, c, m>>)
             THEN /\ modules'[<<u, c, m>>].completed_at
                         = modules[<<u, c, m>>].completed_at
                  /\ stats' = stats
             ELSE /\ modules'[<<u, c, m>>].is_completed
                  /\ modules'[<<u, c, m>>].completed_at = At(now)
                  /\ u \in DOMAIN stats']_vars

\* C20: a completed report either changes no module row, no CourseProgress
\* and no goal, or all of its writes are there together: the module row is
\* completed, the CourseProgress is completed once the count reaches
\* total_steps, and with a completed CourseProgress every goal of the user
\* for the course's category is Completed.
C20_CompletionAllOrNothing ==
    [][\A u \in Users, c \in Courses, m \in ModuleIds, s \in Seconds :
          (/\ <<u, c>> \in DOMAIN progress
           /\ update_module_progress(u, c, m, s, TRUE))
          => \/ UNCHANGED <<modules, progress, goals>>
             \/ /\ modules'[<<u, c, m>>].is_completed
                /\ Cardinality(CompletedRows(modules', <<u, c>>))
                       >= courses[c].total_steps
                   => progress'[<<u, c>>].completed
                /\ progress'[<<u, c>>].completed
                   => \A g \in DOMAIN goals' :
                         (/\ goals'[g].user = u
                          /\ GoalCategory(goals'[g]) = courses[c].category)
                         => goals'[g].status = "C"]_vars

\* C16: after a course_enroll request for a course of the table the user
\* has the (one) CourseProgress of the pair, and a request by a user who had
\* it already changes no goal, no milestone and no CourseProgress.
C16_EnrollIdempotent ==
    [][\A u \in Users, c \in Courses :
          course_enroll(u, c)
          => /\ <<u, c>> \in DOMAIN progress'
             /\ <<u, c>> \in DOMAIN progress
                => UNCHANGED <<goals, milestones, progress>>]_vars

\* Whether the milestone pk exists and belongs to a goal of the user.
Owns(user, pk) ==
    pk \in MilestoneIds /\ goals[milestones[pk].goal].user = user

\* C17: a milestone_toggle request for a milestone that does not exist or
\* is of another user's goal is answered 404 and changes no milestone and no
\* goal.
C17_ToggleNotFound ==
    [][\A u \in Users, m \in 1..MaxMilestones :
          (~Owns(u, m) /\ milestone_toggle(u, m))
          => /\ last'.code = 404
             /\ UNCHANGED <<goals, milestones>>]_vars

\* C18: a goal_update_status request with a status outside N, I, C, A is
\* answered 400 whether or not the goal exists or is the user's, and changes
\* no goal and no milestone.
C18_InvalidStatusRejected ==
    [][\A u \in Users, g \in 1..MaxGoals,
          s \in PostedStatus \ STATUS_CHOICES :
          goal_update_status(u, g, s)
          => /\ last'.code = 400
             /\ UNCHANGED <<goals, milestones>>]_vars

\* An invalid status was posted for a stored goal that has a milestone and
\* is not Completed: the request was answered 400.
C18_Witness ==
    /\ last.op = "goal_update_status"
    /\ last.code = 400
    /\ last.target \in GoalIds
    /\ goals[last.target].status \in {"N", "I", "A"}
    /\ Total(milestones, last.target) > 0

\* C19: a toggle request in which a step fails after the milestone row was
\* written leaves the milestone and the goal as they were before it.
C19_FailedToggleRolledBack ==
    [][\A u \in Users, m \in 1..MaxMilestones, p \in FaultPoints,
          r \in BOOLEAN :
          milestone_toggle_failing(u, m, p, r)
          => UNCHANGED <<goals, milestones>>]_vars

\* C27: for every goal, completed_at is non-null iff the status is
\* Completed.
C27_GoalCompletedAtIffCompleted ==
    \A g \in GoalIds :
        (goals[g].completed_at # Null) <=> (goals[g].status = "C")

\* C28: every goal_create request adds a goal whose slug no goal stored
\* before it carries, and is answered with the redirect, also when another
\* user has a goal with the same title.
C28_SlugGloballyUnique ==
    [][\A u \in Users, title \in Titles, s \in STATUS_CHOICES :
          goal_create(u, title, s)
          => /\ last'.code = 302
             /\ Len(goals') = Len(goals) + 1
             /\ \A g \in GoalIds :
                   goals[g].slug # goals'[Len(goals')].slug]_vars

\* A step is a request of the user: a toggle, a status move, an enrollment,
\* a progress report, or the reconciler run on a CourseProgress of the user.
RequestBy(u) ==
    \/ \E m \in 1..MaxMilestones : milestone_toggle(u, m)
    \/ \E g \in 1..MaxGoals, s \in PostedStatus : goal_update_status(u, g, s)
    \/ \E c \in CourseIds : course_enroll(u, c)
    \/ \E c \in Courses, m \in ModuleIds \cup {Missing}, s \in Seconds,
          b \in BOOLEAN : update_module_progress(u, c, m, s, b)
    \/ (inst # <<>> /\ inst[1].key[1] = u /\ finalize_call)

\* The rows of a keyed table whose key names a user other than u are the
\* same before and after the step, and none is added or removed.
OthersRowsSame(u, before, after) ==
    \A k \in DOMAIN before \cup DOMAIN after :
        k[1] # u => (k \in DOMAIN before /\ k \in DOMAIN after
                     /\ after[k] = before[k])

\* C21: a request of user U leaves every goal, milestone, CourseProgress,
\* ModuleProgress and UserLearningStats row of every other user as it was,
\* and makes no new row for another user.
C21_OtherUsersUntouched ==
    [][\A u \in Users :
          RequestBy(u)
          => /\ \A g \in DOMAIN goals \cup DOMAIN goals' :
                   IF g \in DOMAIN goals
                   THEN goals[g].user # u
                        => (g \in DOMAIN goals' /\ goals'[g] = goals[g])
                   ELSE goals'[g].user = u
             /\ \A m \in DOMAIN milestones \cup DOMAIN milestones' :
                   IF m \in DOMAIN milestones
                   THEN goals[milestones[m].goal].user # u
                        => (m \in DOMAIN milestones'
                            /\ milestones'[m] = milestones[m])
                   ELSE goals'[milestones'[m].goal].user = u
             /\ OthersRowsSame(u, progress, progress')
             /\ OthersRowsSame(u, modules, modules')
             /\ \A v \in DOMAIN stats \cup DOMAIN stats' :
                   v # u => (v \in DOMAIN stats /\ v \in DOMAIN stats'
                             /\ stats'[v] = stats[v])]_vars

\* A toggle request for a stored milestone was refused: the milestone is of
\* another user's goal.
C21_Witness ==
    /\ last.op = "milestone_toggle"
    /\ last.code = 500
    /\ last.target \in MilestoneIds

C23_FallbackOfTen ==
    (/\ last.op = "module_save"
     /\ courses[last.target[2]].total_steps = 0
     /\ Cardinality(CompletedRows(modules,
                                   <<last.target[1], last.target[2]>>)) < 10)
    => ~last.pre[1]

\* C30: a resource_interaction request answered with anything but the
\* success response leaves the UserResourceInteraction table and the
\* resources' upvote_count and saved_count as they were.
C30_RejectedLeavesStateUnchanged ==
    [][\A u \in Users, r \in ResourceIds, t \in InteractionTypes :
          (resource_interaction(u, r, t) /\ last'.code # 200)
          => /\ interactions' = interactions
             /\ resources' = resources]_vars

\* C26: every request that ran the roadmap generator while one of the
\* services failed (language model, video search, malformed answer, quota)
\* is answered successfully, with an empty module list and a warning.
C26_GeneratorFailureIsSoft ==
    [][(last'.op \in {"resource_detail", "generate_course_ajax",
                      "regenerate_course_roadmap"}
        /\ last'.invoked /\ GeneratorFailed(last'.outcome))
       => /\ last'.code = 200
          /\ last'.shown = <<>>
          /\ last'.message = "warning"]_vars

CountersOf(g, ms) ==
    /\ goals[g].milestone_count = Total(ms, g)
    /\ goals[g].milestone_completed_count = Completed(ms, g)

\* C24: nothing keeps two toggles of different milestones of one goal
\* apart.  A toggle in flight has counted the other's milestone as it was
\* committed, not as the other wrote it, and at its commit the goal's
\* counters become the counts it read (or stay, when the recompute does not
\* save), whatever was committed since.  So both can finish with the
\* stored counters counting only one of the two toggles.
C24_TogglesRace ==
    /\ [][\A r \in Requests, u \in Users, pk \in 1..MaxMilestones :
            (milestone_toggle_begin(r, u, pk) /\ r \in DOMAIN pending')
            => \A m \in MilestoneIds \ {pk} :
                  pending'[r].seen[m] = milestones[m]]_vars
    /\ [][\A r \in Requests :
            milestone_toggle_commit(r)
            => LET p == pending[r]
                   g == p.g
               IN  IF last'.pre[3]
                   THEN /\ goals'[g].milestone_count = Total(p.seen, g)
                        /\ goals'[g].milestone_completed_count
                               = Completed(p.seen, g)
                   ELSE /\ goals'[g].milestone_count
                               = goals[g].milestone_count
                        /\ goals'[g].milestone_completed_count
                               = goals[g].milestone_completed_count]_vars

\* C24, the case: both toggles have finished, the second to commit had
\* read the first's milestone before the first committed and saved its
\* counts, and the stored counters are not the counts of the table.
C24_Witness ==
    /\ pending = <<>>
    /\ last.op = "milestone_toggle" /\ last.code = 200
    /\ last.pre[2] /\ last.pre[3]
    /\ last.pre[1].title = goals[1].title
    /\ ~CountersOf(1, milestones)
    /\ \E m \in MilestoneIds \ {last.target} :
          CountersOf(1, [milestones EXCEPT
                            ![m].is_completed = ~milestones[m].is_completed])

\* C25: the commit of a toggle's recompute leaves the goal's title, slug
\* and owner as they are stored at that moment, also when the title was
\* changed after the recompute loaded the goal.
C25_RecomputeKeepsOtherFields ==
    [][\A r \in Requests :
          milestone_toggle_commit(r)
          => LET g == pending[r].g
             IN  /\ goals'[g].title = goals[g].title
                 /\ goals'[g].slug = goals[g].slug
                 /\ goals'[g].user = goals[g].user]_vars

\* C25, the case: a recompute saved the goal although the title stored was
\* no longer the one of the instance it had loaded.
C25_Witness ==
    /\ last.op = "milestone_toggle" /\ last.code = 200
    /\ last.pre[3]
    /\ last.pre[1].title # goals[1].title
    /\ goals[1].status = "C"
    /\ CountersOf(1, milestones)

====
